---- MODULE Spec2Model ----
(***************************************************************************)
(* StockSentimentAnalysis.py as a state machine.                           *)
(*                                                                         *)
(* Numbers are fixed-point integers in units of 1/SCALE; the two floating  *)
(* point special values the indicator code can produce (NaN and +inf) are  *)
(* kept as values of their own, so that 0/0, x/0 and 100/inf behave as in  *)
(* the IEEE arithmetic pandas uses.                                        *)
(*                                                                         *)
(* A run starts in one of two ways (Init).  Run as a script, the module    *)
(* body executes in file order: the for loop of line 112 is reached before *)
(* main is ever called.  The other start is the body of main followed by   *)
(* the loop in one namespace, the only arrangement in which the names the  *)
(* loop reads (X_train, scaler, ...) are bound.                            *)
(***************************************************************************)
EXTENDS Integers, Sequences, FiniteSets, TLC

\* ---- bounds of the model ------------------------------------------------
MaxPrice == 2      \* closes are whole prices 1..MaxPrice
MaxTail  == 3      \* bars fetched beyond the first Window-1
SCALE    == 100    \* fixed-point resolution: 1.0 is SCALE

\* ---- program constants ---------------------------------------------------
Window        == 14   \* window=14 of sma, rsi, bollinger_bands
FastSpan      == 12
SlowSpan      == 26
SignalSpan    == 9
BandWidth     == 2
TestPercent   == 20   \* test_size=0.2

ModelNames ==
  << "Logistic Regression", "Random Forest", "Support Vector Machine",
     "XGBoost", "K-Nearest Neighbors", "Decision Tree", "AdaBoost",
     "Neural Network (MLP)" >>

FeatureCols ==
  << "Sentiment", "SMA", "RSI", "BB_Upper", "BB_Lower", "MACD", "Signal_Line" >>

IndicatorCols ==
  << "Returns", "SMA", "RSI", "BB_Upper", "BB_Lower", "MACD", "Signal_Line" >>

\* ---- floating point values -------------------------------------------------
Num(x) == [k |-> "num", v |-> x]
NaN    == [k |-> "nan", v |-> 0]
PosInf == [k |-> "inf", v |-> 0]

IsNum(f) == f.k = "num"
IsNaN(f) == f.k = "nan"

\* a / b for non-negative a, b
FDiv(a, b) ==
  IF IsNaN(a) \/ IsNaN(b) THEN NaN
  ELSE IF b.v = 0 THEN (IF a.v = 0 THEN NaN ELSE PosInf)
  ELSE Num((a.v * SCALE) \div b.v)

\* 100 - 100 / (1 + rs)
RsiOfRs(rs) ==
  IF IsNaN(rs) THEN NaN
  ELSE IF rs.k = "inf" THEN Num(100 * SCALE)
  ELSE Num(100 * SCALE - (100 * SCALE * SCALE) \div (SCALE + rs.v))

RECURSIVE SumSeq(_, _, _)
SumSeq(s, lo, hi) == IF lo > hi THEN 0 ELSE s[hi] + SumSeq(s, lo, hi - 1)

RECURSIVE SqrtSearch(_, _, _)
SqrtSearch(v, lo, hi) ==
  IF lo >= hi THEN lo
  ELSE LET mid == (lo + hi + 1) \div 2
       IN IF mid * mid <= v THEN SqrtSearch(v, mid, hi)
                            ELSE SqrtSearch(v, lo, mid - 1)

Sqrt(v) == SqrtSearch(v, 0, MaxPrice * SCALE + SCALE)

\* Series.rolling(window).mean(): NaN until the window is full
rolling_mean(s, window) ==
  [i \in 1..Len(s) |->
     IF i < window THEN NaN
     ELSE Num(SumSeq(s, i - window + 1, i) \div window)]

\* Series.rolling(window).std(): sample standard deviation (ddof = 1)
rolling_std(s, window) ==
  [i \in 1..Len(s) |->
     IF i < window THEN NaN
     ELSE LET sm == SumSeq(s, i - window + 1, i)
              sq == SumSeq([j \in 1..Len(s) |-> s[j] * s[j]], i - window + 1, i)
          IN Num(Sqrt((window * sq - sm * sm) \div (window * (window - 1))))]

\* Series.ewm(span, adjust=False).mean(), seeded with the first value
RECURSIVE ewm_mean(_, _, _)
ewm_mean(s, span, n) ==
  IF n = 1 THEN << s[1] >>
  ELSE LET prev == ewm_mean(s, span, n - 1)
       IN Append(prev, ((span - 1) * prev[n - 1] + 2 * s[n]) \div (span + 1))

\* Series.diff(): NaN on the first row
diff(c) == [i \in 1..Len(c) |-> IF i = 1 THEN NaN ELSE Num(c[i] - c[i - 1])]

\* Series.pct_change(): NaN on the first row
pct_change(c) ==
  [i \in 1..Len(c) |->
     IF i = 1 THEN NaN ELSE Num((c[i] * SCALE) \div c[i - 1] - SCALE)]

\* ---- technical indicators ---------------------------------------------------
sma(c, window) == rolling_mean(c, window)

avg_gain(c, window) ==
  LET delta == diff(c)
      gain  == [i \in 1..Len(c) |->
                  IF IsNum(delta[i]) /\ delta[i].v > 0 THEN delta[i].v ELSE 0]
  IN rolling_mean(gain, window)

avg_loss(c, window) ==
  LET delta == diff(c)
      loss  == [i \in 1..Len(c) |->
                  -(IF IsNum(delta[i]) /\ delta[i].v < 0 THEN delta[i].v ELSE 0)]
  IN rolling_mean(loss, window)

rsi(c, window) ==
  LET ag == avg_gain(c, window)
      al == avg_loss(c, window)
  IN [i \in 1..Len(c) |-> RsiOfRs(FDiv(ag[i], al[i]))]

bollinger_bands(c, window) ==
  LET mean    == rolling_mean(c, window)
      std_dev == rolling_std(c, window)
  IN [upper_band |-> [i \in 1..Len(c) |->
                        IF IsNaN(mean[i]) \/ IsNaN(std_dev[i]) THEN NaN
                        ELSE Num(mean[i].v + BandWidth * std_dev[i].v)],
      lower_band |-> [i \in 1..Len(c) |->
                        IF IsNaN(mean[i]) \/ IsNaN(std_dev[i]) THEN NaN
                        ELSE Num(mean[i].v - BandWidth * std_dev[i].v)]]

macd(c) ==
  LET exp12 == ewm_mean(c, FastSpan, Len(c))
      exp26 == ewm_mean(c, SlowSpan, Len(c))
      line  == [i \in 1..Len(c) |-> exp12[i] - exp26[i]]
  IN [macd |-> line, signal_line |-> ewm_mean(line, SignalSpan, Len(c))]

\* the label with >= in place of >
Direction_nonneg(ret) == IF IsNum(ret) /\ ret.v >= 0 THEN 1 ELSE -1

\* np.where(Returns > 0, 1, -1): a NaN return compares false
Direction(ret) == IF IsNum(ret) /\ ret.v > 0 THEN 1 ELSE -1

\* lines 47-52 of preprocess_data: the table with every derived column
Derived(bars) ==
  LET c   == [i \in 1..Len(bars) |-> bars[i].Close.v]
      ret == pct_change(c)
      s   == sma(c, Window)
      r   == rsi(c, Window)
      bb  == bollinger_bands(c, Window)
      mc  == macd(c)
  IN [i \in 1..Len(bars) |->
        [Date        |-> bars[i].Date,
         Close       |-> bars[i].Close,
         Returns     |-> ret[i],
         Direction   |-> Direction(ret[i]),
         SMA         |-> s[i],
         RSI         |-> r[i],
         BB_Upper    |-> bb.upper_band[i],
         BB_Lower    |-> bb.lower_band[i],
         MACD        |-> Num(mc.macd[i]),
         Signal_Line |-> Num(mc.signal_line[i])]]

\* DataFrame.dropna(): keep the rows without a NaN in any column
Complete(row) == \A k \in 1..Len(IndicatorCols) : ~IsNaN(row[IndicatorCols[k]])

\* fillna(0) in place of dropna: every row kept, NaN replaced by zero
dropna_fill(table) ==
  [i \in 1..Len(table) |->
     [f \in DOMAIN table[i] |->
        IF f \in { IndicatorCols[k] : k \in 1..Len(IndicatorCols) } /\ IsNaN(table[i][f])
        THEN Num(0) ELSE table[i][f]]]

dropna(table) == SelectSeq(table, Complete)

\* ---- inputs ---------------------------------------------------------------
Prices == 1..MaxPrice

Tails == UNION { [1..k -> Prices] : k \in 0..MaxTail }

\* the closes the provider returns: Window-1 bars alternating between a and b
\* (flat when a = b), then the bars of tail
Series(a, b, tail) ==
  [i \in 1..(Window - 1 + Len(tail)) |->
     IF i < Window THEN (IF i % 2 = 1 THEN a ELSE b) ELSE tail[i - Window + 1]]

Histories == { Series(a, b, t) : a \in Prices, b \in Prices, t \in Tails }

Headlines == { "Sample headline", "Shares surge on record profit", "Shares plunge on fraud probe" }

\* SentimentIntensityAnalyzer.polarity_scores(text)['compound'], in [-1, 1]
polarity_scores(text) ==
  CASE text = "Shares surge on record profit" -> SCALE \div 2
    [] text = "Shares plunge on fraud probe"  -> -(SCALE \div 2)
    [] OTHER                                  -> 0

\* ---- join, features, scaling, split ----------------------------------------
\* line 82: one placeholder headline per row of stock_data
SampleNews(stock) ==
  [i \in 1..Len(stock) |-> [Date |-> stock[i].Date, Headline |-> "Sample headline"]]

\* DataFrame.merge(on='Date', how='inner'): left rows whose Date the right
\* table holds, in left order, with the right row's Headline
merge(left, right) ==
  LET Matched(row) == \E j \in 1..Len(right) : right[j].Date = row.Date
      kept == SelectSeq(left, Matched)
  IN [i \in 1..Len(kept) |->
        kept[i] @@ ("Headline" :>
           right[CHOOSE j \in 1..Len(right) : right[j].Date = kept[i].Date].Headline)]

\* lines 57-60; the rows hold no NaN after the dropna of lines 53 and 85
prepare_features(table) ==
  [i \in 1..Len(table) |->
     [Date        |-> table[i].Date,
      Sentiment   |-> polarity_scores(table[i].Headline),
      SMA         |-> table[i].SMA.v,
      RSI         |-> table[i].RSI.v,
      BB_Upper    |-> table[i].BB_Upper.v,
      BB_Lower    |-> table[i].BB_Lower.v,
      MACD        |-> table[i].MACD.v,
      Signal_Line |-> table[i].Signal_Line.v]]

ToVector(row) == [k \in 1..Len(FeatureCols) |-> row[FeatureCols[k]]]

ColMin(rows, col) ==
  CHOOSE x \in { rows[i][col] : i \in 1..Len(rows) } :
    \A i \in 1..Len(rows) : x <= rows[i][col]

ColMax(rows, col) ==
  CHOOSE x \in { rows[i][col] : i \in 1..Len(rows) } :
    \A i \in 1..Len(rows) : x >= rows[i][col]

Unfitted == [data_min |-> << >>, data_max |-> << >>]

\* MinMaxScaler.fit: per-column minimum and maximum of the rows given
scaler_fit(rows) ==
  [data_min |-> [k \in 1..Len(FeatureCols) |-> ColMin(rows, FeatureCols[k])],
   data_max |-> [k \in 1..Len(FeatureCols) |-> ColMax(rows, FeatureCols[k])]]

\* the transform without the subtraction of the column minimum
scaler_transform_nomin(sc, vec) ==
  [k \in 1..Len(FeatureCols) |->
     LET range == sc.data_max[k] - sc.data_min[k]
     IN IF range = 0 THEN vec[k] - sc.data_min[k]
        ELSE (vec[k] * SCALE) \div range]

\* MinMaxScaler.transform of one vector: (x - min) / (max - min), and a
\* column of zero range is divided by 1 instead
scaler_transform(sc, vec) ==
  [k \in 1..Len(FeatureCols) |->
     LET range == sc.data_max[k] - sc.data_min[k]
     IN IF range = 0 THEN vec[k] - sc.data_min[k]
        ELSE ((vec[k] - sc.data_min[k]) * SCALE) \div range]

\* lines 91-93: the scaled frame keeps the columns and the index of X
ScaledFrame(sc, rows) ==
  [i \in 1..Len(rows) |->
     LET v == scaler_transform(sc, ToVector(rows[i]))
     IN [Date        |-> rows[i].Date,
         Sentiment   |-> v[1],
         SMA         |-> v[2],
         RSI         |-> v[3],
         BB_Upper    |-> v[4],
         BB_Lower    |-> v[5],
         MACD        |-> v[6],
         Signal_Line |-> v[7]]]

\* numpy RandomState(42).permutation(n), zero-based as numpy returns it
Permutation42(n) ==
  CASE n = 1 -> << 0 >>
    [] n = 2 -> << 1, 0 >>
    [] n = 3 -> << 0, 1, 2 >>
    [] n = 4 -> << 1, 3, 0, 2 >>
    [] n = 5 -> << 1, 4, 2, 0, 3 >>
    [] n = 6 -> << 0, 1, 5, 2, 4, 3 >>
    [] n = 7 -> << 0, 1, 5, 2, 4, 3, 6 >>
    [] n = 8 -> << 1, 5, 0, 7, 2, 4, 3, 6 >>

\* ceil(test_size * n)
NTest(n) == (n * TestPercent + 99) \div 100

\* train_test_split(..., test_size=0.2, random_state=42): the first n_test
\* entries of the permutation are the test rows, the rest the training rows
TestIndex(n)  == [k \in 1..NTest(n) |-> Permutation42(n)[k] + 1]
TrainIndex(n) == [k \in 1..(n - NTest(n)) |-> Permutation42(n)[NTest(n) + k] + 1]

Take(table, index) == [k \in 1..Len(index) |-> table[index[k]]]

MainNames ==
  { "sentiment_analyzer", "stock_ticker", "news_headline", "start_date", "end_date" }

LoopNames == { "X_train", "y_train", "X_test", "y_test" }

VARIABLES
  pc,             \* the statement that runs next
  error,          \* "none", or the exception that ended the run
  names,          \* the names bound in the namespace the loop reads
  history,        \* the closes the market data provider returns
  news_headline,  \* the headline typed at the prompt
  data,           \* preprocess_data's table
  stock_data, merged_data, X, y, scaler,
  X_train, X_test, y_train, y_test,
  m,              \* position of the loop in ModelNames
  best_model, observation, scaled_input, movement,
  log             \* the steps entered so far, in order

vars == << pc, error, names, history, news_headline, data, stock_data,
           merged_data, X, y, scaler, X_train, X_test, y_train, y_test,
           m, best_model, observation, scaled_input, movement, log >>

tables == << data, stock_data, merged_data, X, y, scaler,
             X_train, X_test, y_train, y_test >>

loopvars == << best_model, observation, scaled_input, movement >>

Step(stage, model) == [step |-> stage, model |-> model]

Init ==
  /\ error = "none"
  /\ history \in Histories
  /\ news_headline \in Headlines
  /\ data = << >>
  /\ stock_data = << >>
  /\ merged_data = << >>
  /\ X = << >>
  /\ y = << >>
  /\ scaler = Unfitted
  /\ X_train = << >>
  /\ X_test = << >>
  /\ y_train = << >>
  /\ y_test = << >>
  /\ m = 1
  /\ best_model = "none"
  /\ observation = << >>
  /\ scaled_input = << >>
  /\ movement = "none"
  /\ log = << >>
  /\ \/ pc = "Train" /\ names = {}          \* the script: line 112 comes first
     \/ pc = "Fetch" /\ names = MainNames   \* body of main, then the loop

\* a failure that leaves the run at the failing statement, to be tried again
Fail_retry(exception) ==
  /\ pc' = pc
  /\ error' = exception

Fail(exception) ==
  /\ pc' = "Failed"
  /\ error' = exception

\* line 46: yf.download
Fetch ==
  /\ pc = "Fetch"
  /\ log' = Append(log, Step("Fetch", 0))
  /\ \E ok \in BOOLEAN :
       IF ok
       THEN /\ data' = [i \in 1..Len(history) |->
                          [Date |-> i, Close |-> Num(history[i] * SCALE)]]
            /\ pc' = "Derive"
            /\ error' = error
       ELSE /\ Fail("DownloadError")
            /\ data' = data
  /\ UNCHANGED << names, history, news_headline, stock_data, merged_data, X, y,
                  scaler, X_train, X_test, y_train, y_test, m, loopvars >>

\* lines 47-52
Derive ==
  /\ pc = "Derive"
  /\ log' = Append(log, Step("Derive", 0))
  /\ data' = Derived(data)
  /\ pc' = "DropNA"
  /\ UNCHANGED << error, names, history, news_headline, stock_data, merged_data,
                  X, y, scaler, X_train, X_test, y_train, y_test, m, loopvars >>

\* lines 53-54 and 79
DropNA ==
  /\ pc = "DropNA"
  /\ log' = Append(log, Step("DropNA", 0))
  /\ stock_data' = dropna(data)
  /\ names' = names \cup { "stock_data" }
  /\ pc' = "Join"
  /\ UNCHANGED << error, history, news_headline, data, merged_data, X, y, scaler,
                  X_train, X_test, y_train, y_test, m, loopvars >>

\* lines 82-85
Join ==
  /\ pc = "Join"
  /\ log' = Append(log, Step("Join", 0))
  /\ merged_data' = merge(stock_data, SampleNews(stock_data))
  /\ names' = names \cup { "news_data", "merged_data" }
  /\ pc' = "Scale"
  /\ UNCHANGED << error, history, news_headline, data, stock_data, X, y, scaler,
                  X_train, X_test, y_train, y_test, m, loopvars >>

\* lines 88-93: fit_transform raises ValueError on a table without rows
Scale ==
  /\ pc = "Scale"
  /\ log' = Append(log, Step("Scale", 0))
  /\ LET features == prepare_features(merged_data)
     IN IF Len(features) = 0
        THEN /\ Fail("ValueError")
             /\ UNCHANGED << names, X, scaler >>
        ELSE /\ scaler' = scaler_fit(features)
             /\ X' = ScaledFrame(scaler', features)
             /\ names' = names \cup { "X", "scaler", "X_scaled" }
             /\ pc' = "Split"
             /\ error' = error
  /\ UNCHANGED << history, news_headline, data, stock_data, merged_data, y,
                  X_train, X_test, y_train, y_test, m, loopvars >>

\* lines 95-98: train_test_split raises ValueError when no training row is left
Split ==
  /\ pc = "Split"
  /\ log' = Append(log, Step("Split", 0))
  /\ y' = [i \in 1..Len(merged_data) |->
             [Date |-> merged_data[i].Date, Direction |-> merged_data[i].Direction]]
  /\ LET n == Len(X)
     IN IF n - NTest(n) = 0
        THEN /\ Fail("ValueError")
             /\ names' = names \cup { "y" }
             /\ UNCHANGED << X_train, X_test, y_train, y_test >>
        ELSE /\ X_train' = Take(X, TrainIndex(n))
             /\ X_test'  = Take(X, TestIndex(n))
             /\ y_train' = Take(y', TrainIndex(n))
             /\ y_test'  = Take(y', TestIndex(n))
             /\ names' = names \cup { "y" } \cup LoopNames
             /\ pc' = "Train"
             /\ error' = error
  /\ UNCHANGED << history, news_headline, data, stock_data, merged_data, X,
                  scaler, m, loopvars >>

\* lines 112-113 and 64-66: the call reads X_train, y_train, X_test, y_test,
\* a NameError when they are not bound; the grid search is the toolkit's and
\* may raise
Train ==
  /\ pc = "Train"
  /\ log' = Append(log, Step("Train", m))
  /\ IF ~(LoopNames \subseteq names)
     THEN /\ Fail("NameError")
          /\ best_model' = best_model
     ELSE \E fitted \in BOOLEAN :
            IF fitted
            THEN /\ best_model' = ModelNames[m]
                 /\ pc' = "Evaluate"
                 /\ error' = error
            ELSE /\ Fail("FitError")
                 /\ best_model' = best_model
  /\ UNCHANGED << names, history, news_headline, tables, m,
                  observation, scaled_input, movement >>

\* lines 67-69 and 114-116: predictions on X_test, accuracy and the report
Evaluate ==
  /\ pc = "Evaluate"
  /\ log' = Append(log, Step("Evaluate", m))
  /\ pc' = "Predict"
  /\ UNCHANGED << error, names, history, news_headline, tables, m, loopvars >>

\* the prediction step with fit_transform in place of transform
Predict_refit ==
  /\ pc = "Predict"
  /\ log' = Append(log, Step("Predict", m))
  /\ LET sentiment == polarity_scores(news_headline)
         last      == X_test[Len(X_test)]
     IN /\ observation' = << sentiment, last.SMA, last.RSI, last.BB_Upper,
                             last.BB_Lower, last.MACD, last.Signal_Line >>
        /\ scaler' = [data_min |-> observation', data_max |-> observation']
        /\ scaled_input' = scaler_transform(scaler', observation')
  /\ \E prediction \in { 1, -1 } :
       movement' = IF prediction > 0 THEN "up" ELSE "down"
  /\ IF m < Len(ModelNames)
     THEN m' = m + 1 /\ pc' = "Train"
     ELSE m' = m /\ pc' = "Done"
  /\ UNCHANGED << error, names, history, news_headline, data, stock_data,
                  merged_data, X, y, X_train, X_test, y_train, y_test, best_model >>

\* lines 119-125, and the loop's advance to the next model
Predict ==
  /\ pc = "Predict"
  /\ log' = Append(log, Step("Predict", m))
  /\ LET sentiment == polarity_scores(news_headline)
         last      == X_test[Len(X_test)]
     IN /\ observation' = << sentiment, last.SMA, last.RSI, last.BB_Upper,
                             last.BB_Lower, last.MACD, last.Signal_Line >>
        /\ scaled_input' = scaler_transform(scaler, observation')
  /\ \E prediction \in { 1, -1 } :
       movement' = IF prediction > 0 THEN "up" ELSE "down"
  /\ IF m < Len(ModelNames)
     THEN m' = m + 1 /\ pc' = "Train"
     ELSE m' = m /\ pc' = "Done"
  /\ UNCHANGED << error, names, history, news_headline, tables, best_model >>

Next ==
  \/ Fetch
  \/ Derive
  \/ DropNA
  \/ Join
  \/ Scale
  \/ Split
  \/ Train
  \/ Evaluate
  \/ Predict

Spec == Init /\ [][Next]_vars

\* ---- properties --------------------------------------------------------------
PipelineSteps == { "Fetch", "Derive", "DropNA", "Join", "Scale", "Split" }
LoopSteps     == { "Train", "Evaluate", "Predict" }

IsLoopEntry(e) == e.step \in LoopSteps

Cols == 1..Len(FeatureCols)
Indicators == 2..Len(FeatureCols)

\* the unscaled feature rows of the joined table
RawFeatures == prepare_features(merged_data)

Dates(table) == { table[i].Date : i \in 1..Len(table) }

\* C1: the stages run in the order Fetch, Derive, Join, Scale, Split, and no
\* model's train, evaluate or predict step is entered before Split has run and
\* the scaler has been fitted.
C1_LoopAfterSplit ==
  \A k \in 1..Len(log) :
    IsLoopEntry(log[k]) =>
      /\ \E j \in 1..(k - 1) : log[j].step = "Split"
      /\ \E j \in 1..(k - 1) : log[j].step = "Scale"
      /\ LoopNames \subseteq names

\* C2: once the split exists, each column's stored minimum and maximum are the
\* minimum and maximum over the rows of the training split only.
C2_ScalerFitOnTrainingRows ==
  (LoopNames \subseteq names) =>
    scaler = scaler_fit(Take(RawFeatures, TrainIndex(Len(RawFeatures))))

\* C3: the six indicator values of the prediction-time observation are those
\* of the latest-date row of the feature table (scaled or unscaled).
C3_ObservationIsLatestRow ==
  (observation # << >>) =>
    \/ \A k \in Indicators : observation[k] = ToVector(X[Len(X)])[k]
    \/ \A k \in Indicators : observation[k] = ToVector(RawFeatures[Len(X)])[k]

\* C4: the observation passes through the scaler once: the row it was taken
\* from has, at prediction time, the scaled indicator values it has in the
\* scaled feature matrix.
C4_ObservationScaledOnce ==
  (scaled_input # << >>) =>
    \A k \in Indicators : scaled_input[k] = ToVector(X_test[Len(X_test)])[k]

HasIndicators == pc \notin { "Fetch", "Derive" } /\ Len(data) > 0

\* no close below its predecessor among the deltas of the window ending at i
NoDownMove(i) ==
  \A j \in 2..i : j > i - Window => history[j] >= history[j - 1]

\* C5: a row whose 14-bar window has no down-move has RSI exactly 100, a flat
\* window included; every other row with a full window has RSI in [0, 100];
\* RSI is never NaN once the window is full.
C5_ZeroLossIsHundred ==
  HasIndicators =>
    \A i \in Window..Len(data) :
      /\ IsNum(data[i].RSI)
      /\ NoDownMove(i) => data[i].RSI.v = 100 * SCALE
      /\ data[i].RSI.v >= 0 /\ data[i].RSI.v <= 100 * SCALE

AllDefined(row) == \A k \in 1..Len(IndicatorCols) : IsNum(row[IndicatorCols[k]])

\* C6: the rows kept by preprocess_data are exactly the rows of the derived
\* table whose fields are all defined, unchanged; none of the first 13 bars is
\* among them; and only kept rows reach the join, the scaling and the split.
C6_OnlyCompleteRowsKept ==
  ("stock_data" \in names) =>
    /\ \A k \in 1..Len(stock_data) :
         /\ AllDefined(stock_data[k])
         /\ stock_data[k].Date >= Window
         /\ stock_data[k] = data[stock_data[k].Date]
    /\ \A i \in 1..Len(data) : AllDefined(data[i]) => i \in Dates(stock_data)
    /\ Len(stock_data) = Cardinality(Dates(stock_data))
    /\ Dates(merged_data) \subseteq Dates(stock_data)
    /\ Dates(X) \subseteq Dates(stock_data)
    /\ Dates(X_train) \cup Dates(X_test) \subseteq Dates(stock_data)
    /\ \A k \in 1..Len(merged_data) : AllDefined(merged_data[k])

C6_Witness ==
  /\ pc = "Train"
  /\ LoopNames \subseteq names
  /\ Len(stock_data) >= 2
  /\ \E i \in Window..Len(data) : i \notin Dates(stock_data)

Aligned(features, labels) ==
  /\ Len(features) = Len(labels)
  /\ \A k \in 1..Len(features) : features[k].Date = labels[k].Date

LabelOf(date) == IF history[date] > history[date - 1] THEN 1 ELSE -1

\* C7: every row's Direction is +1 exactly when its close is above the
\* previous bar's close and -1 otherwise, and the label vector has the rows of
\* the feature matrix in the same order, before and after the split.
C7_DirectionLabel ==
  /\ \A k \in 1..Len(merged_data) :
       merged_data[k].Direction = LabelOf(merged_data[k].Date)
  /\ ("y" \in names) =>
       /\ Aligned(X, y)
       /\ \A k \in 1..Len(y) : y[k].Direction = LabelOf(y[k].Date)
  /\ (LoopNames \subseteq names) =>
       /\ Aligned(X_train, y_train)
       /\ Aligned(X_test, y_test)
       /\ \A k \in 1..Len(y_train) : y_train[k].Direction = LabelOf(y_train[k].Date)
       /\ \A k \in 1..Len(y_test) : y_test[k].Direction = LabelOf(y_test[k].Date)

C7_Witness ==
  /\ LoopNames \subseteq names
  /\ \E k \in 1..Len(y) : y[k].Direction = 1
  /\ \E k \in 1..Len(y) :
       y[k].Direction = -1 /\ history[y[k].Date] = history[y[k].Date - 1]
  /\ \E k \in 1..Len(y) :
       y[k].Direction = -1 /\ history[y[k].Date] < history[y[k].Date - 1]

InUnitRange(col) ==
  \A i \in 1..Len(X) : X[i][col] >= 0 /\ X[i][col] <= SCALE

\* the rows of raw that hold the value v in column col are scaled to target
RowsMapTo(raw, col, v, target) ==
  \A i \in 1..Len(X) : raw[i][col] = v => X[i][col] = target

\* C8 as claimed: in every one of the seven columns the scaled values lie in
\* [0, 1], the minimum row maps to 0.0 and the maximum row maps to 1.0.
C8_MinMaxRowsAllColumns ==
  ("X" \in names) =>
    \A raw \in { RawFeatures } :
      \A k \in Cols :
        LET col == FeatureCols[k]
        IN /\ InUnitRange(col)
           /\ RowsMapTo(raw, col, ColMin(raw, col), 0)
           /\ RowsMapTo(raw, col, ColMax(raw, col), SCALE)

\* C8 as amended: in every column the scaled values lie in [0, 1] and the
\* minimum row maps to 0.0; the maximum row maps to 1.0 in a column whose
\* maximum is above its minimum, and a constant column maps to 0.0 throughout.
C8_MinMaxRowsNonConstant ==
  ("X" \in names) =>
    \A raw \in { RawFeatures } :
      \A k \in Cols :
        \A lo \in { ColMin(raw, FeatureCols[k]) } :
          \A hi \in { ColMax(raw, FeatureCols[k]) } :
            /\ InUnitRange(FeatureCols[k])
            /\ RowsMapTo(raw, FeatureCols[k], lo, 0)
            /\ IF hi > lo
               THEN RowsMapTo(raw, FeatureCols[k], hi, SCALE)
               ELSE \A i \in 1..Len(X) : X[i][FeatureCols[k]] = 0

C8_Witness ==
  /\ "X" \in names
  /\ Len(X) >= 3
  /\ \A k \in Indicators :
       ColMax(RawFeatures, FeatureCols[k]) > ColMin(RawFeatures, FeatureCols[k])
  /\ \E k \in Indicators : ColMin(RawFeatures, FeatureCols[k]) # 0

Rank(stage) ==
  CASE stage = "Fetch"    -> 1
    [] stage = "Derive"   -> 2
    [] stage = "DropNA"   -> 3
    [] stage = "Join"     -> 4
    [] stage = "Scale"    -> 5
    [] stage = "Split"    -> 6
    [] stage = "Train"    -> 7
    [] stage = "Evaluate" -> 8
    [] stage = "Predict"  -> 9
    [] OTHER              -> 10

\* how far the run has come: the pipeline stages, then the loop's statements
\* model after model, then the end of the run
Progress ==
  IF pc \in PipelineSteps THEN Rank(pc)
  ELSE IF pc \in LoopSteps THEN 10 * m + Rank(pc)
  ELSE 10 * (Len(ModelNames) + 1)

FatalStep ==
  /\ error = "none"
  /\ error' # "none" => pc' = "Failed"
  /\ Progress' > Progress

\* C9: a failure is fatal: no step is taken from a state in which a stage has
\* failed, the failing step ends the run, and every step moves the run
\* strictly forward, never back to an earlier stage or to the same one.
C9_FailureIsFatal == [][FatalStep]_vars

C9_Witness ==
  /\ error = "FitError"
  /\ pc = "Failed"
  /\ m > 1
  /\ m < Len(ModelNames)

LoopLog == SelectSeq(log, IsLoopEntry)

LoopOrder == << "Train", "Evaluate", "Predict" >>

LoopInOrder ==
  /\ \A k \in 1..Len(LoopLog) :
       /\ LoopLog[k].step = LoopOrder[((k - 1) % 3) + 1]
       /\ LoopLog[k].model = ((k - 1) \div 3) + 1
  /\ pc = "Done" => Len(LoopLog) = 3 * Len(ModelNames)

LoopStepFrame ==
  pc \in LoopSteps =>
    /\ UNCHANGED << scaler, X_train, X_test, y_train, y_test >>
    /\ observation # << >> => observation' = observation

\* C10: the loop takes the models one at a time in the order of the table,
\* each once; a run that completes has trained, evaluated and predicted with
\* every model; and no step of the loop changes the scaler, the splits or,
\* once it is built, the prediction-time observation.
C10_LoopFrame == []LoopInOrder /\ [][LoopStepFrame]_vars

C10_Witness ==
  /\ pc = "Done"
  /\ error = "none"
  /\ Len(X_train) >= 2

====
